---- MODULE Spec2Model ----
(***************************************************************************)
(* Model of the apple-touch-icon edge worker (src/src/lib.rs).             *)
(*                                                                         *)
(* Two specifications share this module:                                   *)
(*   SpecPure  applies the pure functions parse_icon_path, Icon::validate  *)
(*             and generate_icon to inputs drawn from bounded sets;        *)
(*   Spec      runs the request handler `main` for several concurrent      *)
(*             requests against the shared response cache.                 *)
(*                                                                         *)
(* A path is a sequence of one-character strings.                          *)
(***************************************************************************)
EXTENDS Integers, Sequences, FiniteSets, TLC

VARIABLES
    \* ---- SpecPure: one run of parse -> validate -> resize
    pPc,        \* "start" | "parsed" | "validated" | "rendered"
    pIn,        \* how the input path was put together (see PureInputs)
    pPath,      \* the path handed to parse_icon_path
    pParsed,    \* result of parse_icon_path
    pValid,     \* result of Icon::validate, or "none"
    pSrc,       \* dimensions of the decoded source image, or NoDim
    pImg,       \* dimensions of the image generate_icon returned, or NoDim
    \* ---- Spec: the handler, one entry per request
    pc,         \* position of each request in main
    path,       \* req.path() of each request
    icon,       \* local `icon`
    srcRes,     \* the source's reply held between send() and bytes()
    response,   \* local `response`
    result,     \* what the request's caller got
    lookups,    \* cache.get calls made by the request
    fetches,    \* outbound source fetches made by the request
    resizes,    \* generate_icon calls made by the request
    stores,     \* cache.put calls made by the request
    cache,      \* the shared response cache: key -> entry or NoEntry
    window,     \* per key: number of the current freshness window
    fetchedIn,  \* per request: freshness window of its key when it fetched
    hitFrom,    \* per request: the request that wrote the entry it was served
    envSet      \* whether SOURCE_IMAGE_URL is configured

pureVars == <<pPc, pIn, pPath, pParsed, pValid, pSrc, pImg>>
reqVars  == <<pc, path, icon, srcRes, response, result,
              lookups, fetches, resizes, stores, fetchedIn, hitFrom>>
envVars  == <<cache, window, envSet>>
vars     == <<pureVars, reqVars, envVars>>

----------------------------------------------------------------------------
(* Characters and literals of the path grammar                             *)

Digits == <<"0", "1", "2", "3", "4", "5", "6", "7", "8", "9">>

IsDigit(c) == \E i \in 1..10 : Digits[i] = c

\* value of an ASCII digit (char::to_digit)
DigitVal(c) == (CHOOSE i \in 1..10 : Digits[i] = c) - 1

AppleTouchIcon ==
    <<"a", "p", "p", "l", "e", "-", "t", "o", "u", "c", "h", "-", "i", "c", "o", "n">>

Precomposed == <<"-", "p", "r", "e", "c", "o", "m", "p", "o", "s", "e", "d">>

DotPng == <<".", "p", "n", "g">>

\* a different default size
DefaultDigitsOld == <<"5", "7">>

DefaultDigits == <<"6", "0">>

----------------------------------------------------------------------------
(* str::parse::<u32>: decimal accumulation with checked multiply and add.  *)
(* The accumulator is kept as two 16-bit limbs so that the 2^32 overflow   *)
(* test is computed exactly.                                               *)

LimbBase == 65536

NoU32 == [ok |-> FALSE, hi |-> 0, lo |-> 0]

RECURSIVE ParseU32From(_, _, _)
ParseU32From(ds, i, acc) ==
    IF i > Len(ds) THEN acc
    ELSE IF ~IsDigit(ds[i]) THEN NoU32
    ELSE LET low  == acc.lo * 10 + DigitVal(ds[i])
             high == acc.hi * 10 + (low \div LimbBase)
         IN  IF high >= LimbBase
             THEN NoU32                       \* checked_mul / checked_add fails
             ELSE ParseU32From(ds, i + 1,
                               [ok |-> TRUE, hi |-> high, lo |-> low % LimbBase])

\* Result<u32, ParseIntError>: ok = FALSE is the Err case
ParseU32(ds) ==
    IF Len(ds) = 0 THEN NoU32
    ELSE ParseU32From(ds, 1, [ok |-> TRUE, hi |-> 0, lo |-> 0])

\* the number held in the limbs (the digit strings of the inputs that parse
\* denote numbers below 2^31)
U32Value(p) == p.hi * LimbBase + p.lo

----------------------------------------------------------------------------
(* Regex ^apple-touch-icon(-(\d+)x(\d+))?(-precomposed)?\.png              *)
(* Positions are 1-based; a match position is the index of the next        *)
(* unread character.                                                       *)

\* the literal lit occurs in p at position pos
HasAt(p, pos, lit) ==
    /\ pos + Len(lit) - 1 <= Len(p)
    /\ \A i \in 1..Len(lit) : p[pos + i - 1] = lit[i]

\* position after the longest run of digits starting at pos (\d+ is greedy;
\* what follows a \d+ in the pattern is never a digit, so no shorter run
\* can lead to a match)
RECURSIVE DigitsEnd(_, _)
DigitsEnd(p, pos) ==
    IF pos <= Len(p) /\ IsDigit(p[pos]) THEN DigitsEnd(p, pos + 1) ELSE pos

\* group 1, (-(\d+)x(\d+)), tried at pos
SizeGroup(p, pos) ==
    LET w1 == pos + 1
        w2 == DigitsEnd(p, w1)
        h1 == w2 + 1
        h2 == DigitsEnd(p, h1)
    IN  IF /\ HasAt(p, pos, <<"-">>)
           /\ w2 > w1
           /\ HasAt(p, w2, <<"x">>)
           /\ h2 > h1
        THEN [ok |-> TRUE, w |-> SubSeq(p, w1, w2 - 1),
              h |-> SubSeq(p, h1, h2 - 1), next |-> h2]
        ELSE [ok |-> FALSE, w |-> <<>>, h |-> <<>>, next |-> pos]

\* (-precomposed)?\.png tried at pos; the pattern has no end anchor, so the
\* match may stop before the end of the path
TailMatches(p, pos) ==
    \/ HasAt(p, pos, Precomposed) /\ HasAt(p, pos + Len(Precomposed), DotPng)
    \/ HasAt(p, pos, DotPng)

NoCaps == [matched |-> FALSE, sized |-> FALSE, w |-> <<>>, h |-> <<>>]

\* Regex::captures: groups 2 and 3 when the pattern matches at the start
Captures(p) ==
    IF ~HasAt(p, 1, AppleTouchIcon) THEN NoCaps
    ELSE LET pos == Len(AppleTouchIcon) + 1
             g   == SizeGroup(p, pos)
         IN  IF g.ok /\ TailMatches(p, g.next)
             THEN [matched |-> TRUE, sized |-> TRUE, w |-> g.w, h |-> g.h]
             ELSE IF TailMatches(p, pos)       \* group 1 skipped
             THEN [matched |-> TRUE, sized |-> FALSE, w |-> <<>>, h |-> <<>>]
             ELSE NoCaps

----------------------------------------------------------------------------
(* parse_icon_path                                                         *)

NoIcon == [width |-> 0, height |-> 0]

\* Err(format!("Unmached path: {}", path))
ParseErr(p) == [kind |-> "Err", msg |-> "Unmached path", path |-> p, icon |-> NoIcon]

\* unwrap() on a ParseIntError: the call does not return
ParsePanic == [kind |-> "Panic", msg |-> "", path |-> <<>>, icon |-> NoIcon]

NotParsed == [kind |-> "None", msg |-> "", path |-> <<>>, icon |-> NoIcon]

\* Ok(Icon), Err("Unmached path: ..."), or a panic from unwrap()
parse_icon_path(p) ==
    LET caps == Captures(p)
    IN  IF ~caps.matched THEN ParseErr(p)
        ELSE LET width  == ParseU32(IF caps.sized THEN caps.w ELSE DefaultDigits)
                 height == ParseU32(IF caps.sized THEN caps.h ELSE DefaultDigits)
             IN  IF ~width.ok \/ ~height.ok THEN ParsePanic
                 ELSE [kind |-> "Ok", msg |-> "", path |-> <<>>,
                       icon |-> [width  |-> U32Value(width),
                                 height |-> U32Value(height)]]

----------------------------------------------------------------------------
(* Icon::validate                                                          *)

MinSize == 1
MaxSize == 500

\* validate with the upper bound excluded
validateExclusive(ic) ==
    IF ic.width < MinSize \/ ic.width >= MaxSize THEN "invalid width"
    ELSE IF ic.height < MinSize \/ ic.height >= MaxSize THEN "invalid height"
    ELSE IF ic.width # ic.height THEN "invalid size"
    ELSE "ok"

\* validate with the height checked before the width
validateHeightFirst(ic) ==
    IF ic.height < MinSize \/ ic.height > MaxSize THEN "invalid height"
    ELSE IF ic.width < MinSize \/ ic.width > MaxSize THEN "invalid width"
    ELSE IF ic.width # ic.height THEN "invalid size"
    ELSE "ok"

validate(ic) ==
    IF ic.width < MinSize \/ ic.width > MaxSize THEN "invalid width"
    ELSE IF ic.height < MinSize \/ ic.height > MaxSize THEN "invalid height"
    ELSE IF ic.width # ic.height THEN "invalid size"
    ELSE "ok"

----------------------------------------------------------------------------
(* generate_icon: DynamicImage::resize(width, height, Triangle).           *)
(* resize keeps the source's aspect ratio: it scales the source by the     *)
(* smaller of the two ratios width/sw and height/sh, rounds each side to   *)
(* the nearest pixel (at least 1), and resamples to those dimensions.      *)

NoDim == <<0, 0>>

Max2(a, b) == IF a >= b THEN a ELSE b

\* round(a / b) for a >= 0, b > 0, halves rounded up (f64::round)
RoundDiv(a, b) == (2 * a + b) \div (2 * b)

\* image::math::utils::resize_dimensions(sw, sh, nwidth, nheight, fill = false)
resize_dimensions(sw, sh, nwidth, nheight) ==
    IF nwidth * sh <= nheight * sw                  \* wratio <= hratio
    THEN <<Max2(RoundDiv(sw * nwidth, sw), 1), Max2(RoundDiv(sh * nwidth, sw), 1)>>
    ELSE <<Max2(RoundDiv(sw * nheight, sh), 1), Max2(RoundDiv(sh * nheight, sh), 1)>>

\* dimensions of the image generate_icon returns for a source of dimensions src
generate_icon(ic, src) == resize_dimensions(src[1], src[2], ic.width, ic.height)

----------------------------------------------------------------------------
(* Inputs of SpecPure                                                      *)

DigitStrs ==
    { <<"0">>, <<"1">>, <<"7">>, <<"0", "0", "7">>, <<"5", "7">>, <<"6", "0">>,
      <<"1", "2", "0">>, <<"5", "0", "0">>, <<"5", "0", "1">>, <<"6", "0", "0">>,
      <<"2", "1", "4", "7", "4", "8", "3", "6", "4", "7">>,
      <<"4", "2", "9", "4", "9", "6", "7", "2", "9", "6">>,
      <<"9", "9", "9", "9", "9", "9", "9", "9", "9", "9", "9">> }

Junk == { <<>>, <<"z">> }

\* paths of the form  pre apple-touch-icon [-WxH] [-precomposed] .png suf
GrammarInputs ==
    [shape : {"grammar"}, pre : Junk, sized : {TRUE}, w : DigitStrs, h : DigitStrs,
     precomposed : BOOLEAN, suf : Junk, raw : {<<>>}]
    \cup
    [shape : {"grammar"}, pre : Junk, sized : {FALSE}, w : {<<>>}, h : {<<>>},
     precomposed : BOOLEAN, suf : Junk, raw : {<<>>}]

\* paths that are not of that form
RawPaths ==
    { <<>>,
      <<"f", "a", "v", "i", "c", "o", "n", ".", "i", "c", "o">>,
      AppleTouchIcon,
      AppleTouchIcon \o <<"-", "1", "2">> \o DotPng,
      AppleTouchIcon \o <<"-", "x", "1", "2">> \o DotPng,
      AppleTouchIcon \o <<"-", "1", "2", "x">> \o DotPng,
      AppleTouchIcon \o <<"1", "2", "x", "1", "2">> \o DotPng,
      AppleTouchIcon \o <<"-", "1", "2", "X", "1", "2">> \o DotPng,
      AppleTouchIcon \o <<"-", "1", "2", "x", "-", "1", "2">> \o DotPng,
      AppleTouchIcon \o Precomposed \o <<"-", "1", "2", "x", "1", "2">> \o DotPng,
      AppleTouchIcon \o Precomposed \o Precomposed \o DotPng,
      AppleTouchIcon \o <<"-">> \o DotPng,
      AppleTouchIcon \o <<"z", "p", "n", "g">>,
      AppleTouchIcon \o <<".", "P", "N", "G">>,
      AppleTouchIcon \o <<".", "p", "n">>,
      <<"A">> \o Tail(AppleTouchIcon) \o DotPng }

RawInputs ==
    [shape : {"raw"}, pre : {<<>>}, sized : {FALSE}, w : {<<>>}, h : {<<>>},
     precomposed : {FALSE}, suf : {<<>>}, raw : RawPaths]

PureInputs == GrammarInputs \cup RawInputs

\* the path an input stands for
Build(in) ==
    IF in.shape = "raw" THEN in.raw
    ELSE in.pre \o AppleTouchIcon
         \o (IF in.sized THEN <<"-">> \o in.w \o <<"x">> \o in.h ELSE <<>>)
         \o (IF in.precomposed THEN Precomposed ELSE <<>>)
         \o DotPng \o in.suf

\* pixel dimensions of decoded source images
SrcDims == { <<256, 256>>, <<60, 60>>, <<1, 1>>, <<200, 100>>, <<100, 200>>, <<1000, 3>> }

----------------------------------------------------------------------------
(* SpecPure: parse_icon_path, then Icon::validate, then generate_icon      *)

PureInit ==
    /\ pPc = "start"
    /\ pIn \in PureInputs
    /\ pPath = Build(pIn)
    /\ pParsed = NotParsed
    /\ pValid = "none"
    /\ pSrc = NoDim
    /\ pImg = NoDim

PureIdle ==
    /\ pPc = "off"
    /\ pIn = CHOOSE in \in RawInputs : in.raw = <<>>
    /\ pPath = <<>>
    /\ pParsed = NotParsed
    /\ pValid = "none"
    /\ pSrc = NoDim
    /\ pImg = NoDim

\* lines 76-85
PParse ==
    /\ pPc = "start"
    /\ pParsed' = parse_icon_path(pPath)
    /\ pPc' = "parsed"
    /\ UNCHANGED <<pIn, pPath, pValid, pSrc, pImg, reqVars, envVars>>

\* lines 14-26, on the icon parse_icon_path returned
PValidate ==
    /\ pPc = "parsed"
    /\ pParsed.kind = "Ok"
    /\ pValid' = validate(pParsed.icon)
    /\ pPc' = "validated"
    /\ UNCHANGED <<pIn, pPath, pParsed, pSrc, pImg, reqVars, envVars>>

\* lines 115-121, on a validated icon and a decoded source image
PRender ==
    /\ pPc = "validated"
    /\ pValid = "ok"
    /\ \E src \in SrcDims :
          /\ pSrc' = src
          /\ pImg' = generate_icon(pParsed.icon, src)
    /\ pPc' = "rendered"
    /\ UNCHANGED <<pIn, pPath, pParsed, pValid, reqVars, envVars>>

----------------------------------------------------------------------------
(* The handler `main`: requests, responses, the source and the cache       *)

NReq == 2
Req == 1..NReq

\* upper bound on the freshness windows a key goes through
MaxWindow == 1

Slash == "/"

\* str::trim_start_matches("/"): every leading '/' is removed
RECURSIVE TrimStartSlashes(_)
TrimStartSlashes(p) ==
    IF Len(p) > 0 /\ Head(p) = Slash THEN TrimStartSlashes(Tail(p)) ELSE p

\* req.path() of the requests the handler is run on
HandlerPaths ==
    { <<Slash>> \o AppleTouchIcon \o DotPng,
      <<Slash>> \o AppleTouchIcon \o Precomposed \o DotPng,
      <<Slash>> \o AppleTouchIcon \o <<"-", "1", "2", "0", "x", "1", "2", "0">> \o DotPng,
      <<Slash>> \o AppleTouchIcon \o <<"-", "6", "0", "0", "x", "6", "0", "0">> \o DotPng,
      <<Slash>> \o AppleTouchIcon
          \o <<"-", "4", "2", "9", "4", "9", "6", "7", "2", "9", "6", "x", "1">> \o DotPng,
      <<Slash, "f", "a", "v", "i", "c", "o", "n", ".", "i", "c", "o">> }

\* a key that leaves the path out
KeyOfHostOnly(p) == <<>>

\* req.url()?.to_string(): scheme, host and query are the same for all the
\* requests modelled, so the URL string is determined by the path
KeyOf(p) == p

Keys == { KeyOf(p) : p \in HandlerPaths }

NoBody == [kind |-> "none", msg |-> "", dim |-> NoDim, of |-> NoDim]

NoResponse == [status |-> 0, contentType |-> "", cacheControl |-> "", body |-> NoBody]

\* Response::error(msg, status)
ErrorResponse(msg, status) ==
    [status |-> status, contentType |-> "", cacheControl |-> "",
     body |-> [kind |-> "text", msg |-> msg, dim |-> NoDim, of |-> NoDim]]

\* respond_with_errors: an Err returned by main becomes a 500 response
ErrResult(msg) == ErrorResponse(msg, 500)

\* what the source may answer: a content-type header (hasType = FALSE
\* when the header is missing), whether the body decodes as the declared format, and the pixel
\* dimensions of the decoded image
SrcReplies ==
    { [hasType |-> TRUE,  contentType |-> "image/png",  decodes |-> TRUE,  dim |-> <<256, 256>>],
      [hasType |-> TRUE,  contentType |-> "image/jpeg", decodes |-> TRUE,  dim |-> <<200, 100>>],
      [hasType |-> TRUE,  contentType |-> "image/gif",  decodes |-> FALSE, dim |-> NoDim],
      [hasType |-> TRUE,  contentType |-> "text/html",  decodes |-> FALSE, dim |-> NoDim],
      [hasType |-> FALSE, contentType |-> "",           decodes |-> FALSE, dim |-> NoDim] }

\* no reply held
NoReply == [hasType |-> FALSE, contentType |-> "", decodes |-> FALSE, dim |-> NoDim]

\* detect_image_format that falls back to PNG for an unknown content-type
detect_image_formatLenient(contentType) ==
    IF contentType = "image/jpeg" THEN "Jpeg"
    ELSE IF contentType = "image/gif" THEN "Gif"
    ELSE "Png"

\* lines 104-113
detect_image_format(contentType) ==
    IF contentType = "image/jpeg" THEN "Jpeg"
    ELSE IF contentType = "image/png" THEN "Png"
    ELSE IF contentType = "image/gif" THEN "Gif"
    ELSE "Err"

\* the response without the cache-control header
make_responseNoCacheControl(img) ==
    [status |-> 200, contentType |-> "image/png", cacheControl |-> "",
     body |-> [kind |-> "png", msg |-> "", dim |-> img.dim, of |-> img.of]]

\* lines 123-132 and line 69: the PNG encoding of the icon image, with the
\* content-type header of make_response and the cache-control header of main
make_response(img) ==
    [status |-> 200, contentType |-> "image/png", cacheControl |-> "s-maxage=10",
     body |-> [kind |-> "png", msg |-> "", dim |-> img.dim, of |-> img.of]]

NoEntry == [resp |-> NoResponse, by |-> 0]

\* a lookup that never matches
CacheMatchNever(c, k) == NoEntry

\* cache.get(&key, true): the entry matched for key, or NoEntry
CacheMatch(c, k) == c[k]

\* a store that keeps an entry already present
CacheStoredIfAbsent(c, k, resp, r) ==
    IF c[k] = NoEntry THEN [c EXCEPT ![k] = [resp |-> resp, by |-> r]] ELSE c

\* cache.put(key, response): the cache after a store by request r that succeeded
CacheStored(c, k, resp, r) == [c EXCEPT ![k] = [resp |-> resp, by |-> r]]

HandlerInit ==
    /\ pc = [r \in Req |-> "idle"]
    /\ path = [r \in Req |-> <<>>]
    /\ icon = [r \in Req |-> NoIcon]
    /\ srcRes = [r \in Req |-> NoReply]
    /\ response = [r \in Req |-> NoResponse]
    /\ result = [r \in Req |-> NoResponse]
    /\ lookups = [r \in Req |-> 0]
    /\ fetches = [r \in Req |-> 0]
    /\ resizes = [r \in Req |-> 0]
    /\ stores = [r \in Req |-> 0]
    /\ fetchedIn = [r \in Req |-> 0]
    /\ hitFrom = [r \in Req |-> 0]
    /\ cache = [k \in Keys |-> NoEntry]
    /\ window = [k \in Keys |-> 0]
    /\ envSet \in BOOLEAN

\* the request ends: res goes to its caller
Finish(r, res) ==
    /\ pc' = [pc EXCEPT ![r] = "done"]
    /\ result' = [result EXCEPT ![r] = res]

\* lines 40-57: a request arrives; its path is parsed and validated
Receive(r) ==
    /\ pc[r] = "idle"
    /\ \E p \in HandlerPaths :
          LET parsed == parse_icon_path(TrimStartSlashes(p))
              valid  == validate(parsed.icon)
          IN  /\ path' = [path EXCEPT ![r] = p]
              /\ CASE parsed.kind = "Err" ->
                        /\ Finish(r, ErrorResponse(parsed.msg, 400))
                        /\ UNCHANGED icon
                   [] parsed.kind = "Panic" ->
                        /\ pc' = [pc EXCEPT ![r] = "panicked"]
                        /\ UNCHANGED <<icon, result>>
                   [] parsed.kind = "Ok" /\ valid # "ok" ->
                        /\ Finish(r, ErrorResponse(valid, 403))
                        /\ icon' = [icon EXCEPT ![r] = parsed.icon]
                   [] OTHER ->
                        /\ pc' = [pc EXCEPT ![r] = "get"]
                        /\ icon' = [icon EXCEPT ![r] = parsed.icon]
                        /\ UNCHANGED result
    /\ UNCHANGED <<srcRes, response, lookups, fetches, resizes, stores,
                   fetchedIn, hitFrom, envVars, pureVars>>

\* line 59, cache.get fails: main returns the error
CacheGetFail(r) ==
    /\ pc[r] = "get"
    /\ lookups' = [lookups EXCEPT ![r] = @ + 1]
    /\ Finish(r, ErrResult("cache get"))
    /\ UNCHANGED <<path, icon, srcRes, response, fetches, resizes, stores,
                   fetchedIn, hitFrom, envVars, pureVars>>

\* a hit that needs the configuration, as if env.var were read before the lookup
CacheHitNeedsConfig(r) ==
    /\ pc[r] = "get"
    /\ envSet
    /\ CacheMatch(cache, KeyOf(path[r])) # NoEntry
    /\ lookups' = [lookups EXCEPT ![r] = @ + 1]
    /\ response' = [response EXCEPT ![r] = CacheMatch(cache, KeyOf(path[r])).resp]
    /\ hitFrom' = [hitFrom EXCEPT ![r] = CacheMatch(cache, KeyOf(path[r])).by]
    /\ Finish(r, CacheMatch(cache, KeyOf(path[r])).resp)
    /\ UNCHANGED <<path, icon, srcRes, fetches, resizes, stores,
                   fetchedIn, envVars, pureVars>>

\* lines 59-61 and 73, cache hit: the stored response is returned
CacheHit(r) ==
    /\ pc[r] = "get"
    /\ CacheMatch(cache, KeyOf(path[r])) # NoEntry
    /\ lookups' = [lookups EXCEPT ![r] = @ + 1]
    /\ response' = [response EXCEPT ![r] = CacheMatch(cache, KeyOf(path[r])).resp]
    /\ hitFrom' = [hitFrom EXCEPT ![r] = CacheMatch(cache, KeyOf(path[r])).by]
    /\ Finish(r, CacheMatch(cache, KeyOf(path[r])).resp)
    /\ UNCHANGED <<path, icon, srcRes, fetches, resizes, stores,
                   fetchedIn, envVars, pureVars>>

\* the miss path taken without regard to what the lookup found
CacheMissUnchecked(r) ==
    /\ pc[r] = "get"
    /\ envSet
    /\ lookups' = [lookups EXCEPT ![r] = @ + 1]
    /\ pc' = [pc EXCEPT ![r] = "send"]
    /\ fetches' = [fetches EXCEPT ![r] = @ + 1]
    /\ fetchedIn' = [fetchedIn EXCEPT ![r] = window[KeyOf(path[r])]]
    /\ UNCHANGED <<path, icon, srcRes, response, result, resizes, stores,
                   hitFrom, envVars, pureVars>>

\* lines 59, 62-65 and 88-89, cache miss: the configuration is read and the
\* source request is sent
CacheMiss(r) ==
    /\ pc[r] = "get"
    /\ CacheMatch(cache, KeyOf(path[r])) = NoEntry
    /\ lookups' = [lookups EXCEPT ![r] = @ + 1]
    /\ IF envSet
       THEN /\ pc' = [pc EXCEPT ![r] = "send"]
            /\ fetches' = [fetches EXCEPT ![r] = @ + 1]
            /\ fetchedIn' = [fetchedIn EXCEPT ![r] = window[KeyOf(path[r])]]
            /\ UNCHANGED result
       ELSE /\ Finish(r, ErrResult("no SOURCE_IMAGE_URL"))
            /\ UNCHANGED <<fetches, fetchedIn>>
    /\ UNCHANGED <<path, icon, srcRes, response, resizes, stores,
                   hitFrom, envVars, pureVars>>

\* line 89: the source answers, or the fetch fails
FetchSend(r) ==
    /\ pc[r] = "send"
    /\ \/ /\ Finish(r, ErrResult("fetch"))
          /\ UNCHANGED srcRes
       \/ \E reply \in SrcReplies :
             /\ srcRes' = [srcRes EXCEPT ![r] = reply]
             /\ pc' = [pc EXCEPT ![r] = "bytes"]
             /\ UNCHANGED result
    /\ UNCHANGED <<path, icon, response, lookups, fetches, resizes, stores,
                   fetchedIn, hitFrom, envVars, pureVars>>

\* a failed body read that is retried with a new fetch
BodyFailRetry(r) ==
    /\ pc[r] = "bytes"
    /\ srcRes' = [srcRes EXCEPT ![r] = NoReply]
    /\ pc' = [pc EXCEPT ![r] = "send"]
    /\ fetches' = [fetches EXCEPT ![r] = @ + 1]
    /\ UNCHANGED <<path, icon, response, result, lookups, resizes, stores,
                   fetchedIn, hitFrom, envVars, pureVars>>

\* line 90, res.bytes() fails: main returns the error
BodyFail(r) ==
    /\ pc[r] = "bytes"
    /\ srcRes' = [srcRes EXCEPT ![r] = NoReply]
    /\ Finish(r, ErrResult("bytes"))
    /\ UNCHANGED <<path, icon, response, lookups, fetches, resizes, stores,
                   fetchedIn, hitFrom, envVars, pureVars>>

\* lines 92-96: no content-type header, or one detect_image_format rejects
FormatFail(r) ==
    /\ pc[r] = "bytes"
    /\ \/ ~srcRes[r].hasType
       \/ detect_image_format(srcRes[r].contentType) = "Err"
    /\ srcRes' = [srcRes EXCEPT ![r] = NoReply]
    /\ Finish(r, ErrResult(IF srcRes[r].hasType
                           THEN "Unknown source image format"
                           ELSE "Could not get content-type response header"))
    /\ UNCHANGED <<path, icon, response, lookups, fetches, resizes, stores,
                   fetchedIn, hitFrom, envVars, pureVars>>

\* lines 98-99: the body does not decode as the detected format
DecodeFail(r) ==
    /\ pc[r] = "bytes"
    /\ srcRes[r].hasType
    /\ detect_image_format(srcRes[r].contentType) # "Err"
    /\ ~srcRes[r].decodes
    /\ srcRes' = [srcRes EXCEPT ![r] = NoReply]
    /\ Finish(r, ErrResult("decode"))
    /\ UNCHANGED <<path, icon, response, lookups, fetches, resizes, stores,
                   fetchedIn, hitFrom, envVars, pureVars>>

\* the source image decoded from the reply a request holds
Decoded(r) ==
    /\ pc[r] = "bytes"
    /\ srcRes[r].hasType
    /\ detect_image_format(srcRes[r].contentType) # "Err"
    /\ srcRes[r].decodes

\* the image generate_icon makes for request r from the reply it holds
IconImage(r) ==
    [dim |-> generate_icon(icon[r], srcRes[r].dim), of |-> srcRes[r].dim]

\* lines 66-67 and 125-127: the icon is generated, its PNG encoding fails
EncodeFail(r) ==
    /\ Decoded(r)
    /\ resizes' = [resizes EXCEPT ![r] = @ + 1]
    /\ srcRes' = [srcRes EXCEPT ![r] = NoReply]
    /\ Finish(r, ErrResult("encode"))
    /\ UNCHANGED <<path, icon, response, lookups, fetches, stores,
                   fetchedIn, hitFrom, envVars, pureVars>>

\* the built response returned at once, without cache.put
RenderWithoutStore(r) ==
    /\ Decoded(r)
    /\ resizes' = [resizes EXCEPT ![r] = @ + 1]
    /\ response' = [response EXCEPT ![r] = make_response(IconImage(r))]
    /\ srcRes' = [srcRes EXCEPT ![r] = NoReply]
    /\ Finish(r, make_response(IconImage(r)))
    /\ UNCHANGED <<path, icon, lookups, fetches, stores,
                   fetchedIn, hitFrom, envVars, pureVars>>

\* lines 66-70: the icon is generated and encoded, the response is built and
\* cache.put is called with a copy of it
Render(r) ==
    /\ Decoded(r)
    /\ resizes' = [resizes EXCEPT ![r] = @ + 1]
    /\ response' = [response EXCEPT ![r] = make_response(IconImage(r))]
    /\ stores' = [stores EXCEPT ![r] = @ + 1]
    /\ srcRes' = [srcRes EXCEPT ![r] = NoReply]
    /\ pc' = [pc EXCEPT ![r] = "put"]
    /\ UNCHANGED <<path, icon, result, lookups, fetches,
                   fetchedIn, hitFrom, envVars, pureVars>>

\* a store that reports success without writing the entry
CachePutOkDropped(r) ==
    /\ pc[r] = "put"
    /\ Finish(r, response[r])
    /\ UNCHANGED <<path, icon, srcRes, response, lookups, fetches, resizes, stores,
                   fetchedIn, hitFrom, envVars, pureVars>>

\* lines 70 and 73: the store succeeds and the response is returned
CachePutOk(r) ==
    /\ pc[r] = "put"
    /\ cache' = CacheStored(cache, KeyOf(path[r]), response[r], r)
    /\ Finish(r, response[r])
    /\ UNCHANGED <<path, icon, srcRes, response, lookups, fetches, resizes, stores,
                   fetchedIn, hitFrom, window, envSet, pureVars>>

\* a failed store that is ignored: the built response is returned
CachePutFailIgnored(r) ==
    /\ pc[r] = "put"
    /\ Finish(r, response[r])
    /\ UNCHANGED <<path, icon, srcRes, response, lookups, fetches, resizes, stores,
                   fetchedIn, hitFrom, envVars, pureVars>>

\* line 70, cache.put fails: `?` returns the error from main
CachePutFail(r) ==
    /\ pc[r] = "put"
    /\ Finish(r, ErrResult("cache put"))
    /\ UNCHANGED <<path, icon, srcRes, response, lookups, fetches, resizes, stores,
                   fetchedIn, hitFrom, envVars, pureVars>>

\* the cache drops the entry of key k: its freshness window (s-maxage=10) is over
Expire(k) ==
    /\ cache[k] # NoEntry
    /\ window[k] < MaxWindow
    /\ cache' = [cache EXCEPT ![k] = NoEntry]
    /\ window' = [window EXCEPT ![k] = @ + 1]
    /\ UNCHANGED <<reqVars, envSet, pureVars>>

\* the deployment's SOURCE_IMAGE_URL binding is added or removed
ConfigChange ==
    /\ envSet' = ~envSet
    /\ UNCHANGED <<reqVars, cache, window, pureVars>>

----------------------------------------------------------------------------
(* Specifications                                                          *)

Init == HandlerInit /\ PureIdle

Next ==
    \/ \E r \in Req : Receive(r)
    \/ \E r \in Req : CacheGetFail(r)
    \/ \E r \in Req : CacheHit(r)
    \/ \E r \in Req : CacheMiss(r)
    \/ \E r \in Req : FetchSend(r)
    \/ \E r \in Req : BodyFail(r)
    \/ \E r \in Req : FormatFail(r)
    \/ \E r \in Req : DecodeFail(r)
    \/ \E r \in Req : EncodeFail(r)
    \/ \E r \in Req : Render(r)
    \/ \E r \in Req : CachePutOk(r)
    \/ \E r \in Req : CachePutFail(r)
    \/ \E k \in Keys : Expire(k)
    \/ ConfigChange

Spec == Init /\ [][Next]_vars

InitPure == PureInit /\ HandlerInit

NextPure ==
    \/ PParse
    \/ PValidate
    \/ PRender

SpecPure == InitPure /\ [][NextPure]_vars

----------------------------------------------------------------------------
(* Properties of the handler, checked under Spec                           *)

KeyOfReq(r) == KeyOf(path[r])

NoCacheWork(r) == lookups[r] = 0 /\ fetches[r] = 0 /\ stores[r] = 0

\* the path of r matches the pattern and one of its numbers does not fit u32
Overflows(p) ==
    LET caps == Captures(TrimStartSlashes(p))
    IN  /\ caps.matched
        /\ caps.sized
        /\ (~ParseU32(caps.w).ok \/ ~ParseU32(caps.h).ok)

\* C1: a request whose path fails parsing is answered 400, one whose parsed
\* size fails validation is answered 403, and neither request looks the
\* cache up, stores into it or fetches the source.
C1_RejectedIsClientError ==
    \A r \in Req :
        pc[r] # "idle" =>
            LET parsed == parse_icon_path(TrimStartSlashes(path[r]))
            IN  /\ parsed.kind # "Ok" =>
                       /\ pc[r] = "done"
                       /\ result[r].status = 400
                       /\ NoCacheWork(r)
                /\ (parsed.kind = "Ok" /\ validate(parsed.icon) # "ok") =>
                       /\ pc[r] = "done"
                       /\ result[r].status = 403
                       /\ NoCacheWork(r)

\* a request that was answered from the cache
WasHit(r) == hitFrom[r] # 0

\* r finished with the response it built and stored on a miss
StoredOk(r) ==
    /\ pc[r] = "done"
    /\ stores[r] = 1
    /\ result[r].status = 200

\* a lookup of r completes in this step while the cache holds its key
LookupFindsEntry(r) ==
    /\ pc[r] = "get"
    /\ pc'[r] # "get"
    /\ cache[KeyOfReq(r)] # NoEntry

\* C2 (state part): a request served the entry another request stored made
\* no fetch, resize or store and got that request's response unchanged; the
\* request that stored it missed and fetched exactly once; and until the
\* entry expires the cache keeps an entry for a stored key.
C2_HitState ==
    /\ \A r \in Req :
          WasHit(r) =>
              LET w == hitFrom[r]
              IN  /\ fetches[r] = 0 /\ resizes[r] = 0 /\ stores[r] = 0
                  /\ pc[r] = "done"
                  /\ result[r] = result[w]
                  /\ result[r].status = 200
                  /\ KeyOfReq(w) = KeyOfReq(r)
                  /\ ~WasHit(w)
                  /\ lookups[w] = 1 /\ fetches[w] = 1 /\ stores[w] = 1
    /\ \A r \in Req :
          (StoredOk(r) /\ window[KeyOfReq(r)] = fetchedIn[r]) =>
              cache[KeyOfReq(r)] # NoEntry

\* C2 (step part): a lookup made while the cache holds the key ends the
\* request with the stored response, unless the lookup itself fails.
C2_HitStep ==
    \A r \in Req :
        LookupFindsEntry(r) =>
            /\ pc'[r] = "done"
            /\ \/ /\ result'[r] = cache[KeyOfReq(r)].resp
                  /\ hitFrom'[r] = cache[KeyOfReq(r)].by
                  /\ fetches'[r] = 0
               \/ result'[r] = ErrResult("cache get")

\* C2: of two sequential requests for one URL made while the entry is fresh,
\* the first misses, fetches once and stores; the second hits, fetches
\* nothing and returns the same bytes.
C2_SequentialHit == [](C2_HitState) /\ [][C2_HitStep]_vars

C2_Witness ==
    \E r, w \in Req :
        /\ r # w
        /\ hitFrom[r] = w
        /\ pc[r] = "done" /\ pc[w] = "done"
        /\ result[r] = result[w]
        /\ result[r].body.kind = "png"

\* C3 as stated: requests sharing a key make at most one source fetch (and
\* one resize) within one freshness window of the cache.
C3_OneFetchPerWindow ==
    \A r1, r2 \in Req :
        (/\ r1 # r2
         /\ fetches[r1] > 0 /\ fetches[r2] > 0
         /\ KeyOfReq(r1) = KeyOfReq(r2))
        => fetchedIn[r1] # fetchedIn[r2]

C3_MissState ==
    \A r \in Req :
        /\ fetches[r] <= 1
        /\ resizes[r] <= fetches[r]
        /\ fetches[r] = 1 => (lookups[r] = 1 /\ ~WasHit(r))
        /\ WasHit(r) => (fetches[r] = 0 /\ resizes[r] = 0)

C3_MissStep ==
    \A r \in Req :
        fetches'[r] > fetches[r] => cache[KeyOfReq(r)] = NoEntry

\* C3 as amended: a request fetches and resizes at most once, and only when
\* its own lookup found no entry for its key; while the cache holds an entry
\* for a key no request starts a fetch for it.
C3_FetchOnlyOnMiss == [](C3_MissState) /\ [][C3_MissStep]_vars

\* two requests for one key both missed and fetched in the same window
C3_Witness ==
    \E r1, r2 \in Req :
        /\ r1 # r2
        /\ KeyOfReq(r1) = KeyOfReq(r2)
        /\ fetches[r1] = 1 /\ fetches[r2] = 1
        /\ resizes[r1] = 1 /\ resizes[r2] = 1
        /\ fetchedIn[r1] = fetchedIn[r2]

\* the store of r completes in this step without r's entry being in the cache
PutFailedStep(r) ==
    /\ pc[r] = "put"
    /\ pc'[r] = "done"
    /\ cache'[KeyOfReq(r)] # [resp |-> response[r], by |-> r]

\* C4 as stated: when the store fails after a successful render the request
\* still returns the 200 PNG response it built.
C4_StoreFailureReturnsIcon ==
    [][\A r \in Req : PutFailedStep(r) => result'[r] = response[r]]_vars

C4_FailStep ==
    \A r \in Req :
        PutFailedStep(r) =>
            /\ result'[r].status = 500
            /\ result'[r].body.kind = "text"
            /\ cache' = cache

C4_MissAgainStep ==
    \A r \in Req :
        (pc[r] = "get" /\ pc'[r] # "get" /\ cache[KeyOfReq(r)] = NoEntry) =>
            /\ hitFrom'[r] = 0
            /\ pc'[r] \in {"send", "done"}
            /\ pc'[r] = "done" => result'[r].status = 500

\* C4 as amended: when the store fails after a successful render the request
\* ends with a 500 error response, the failed store leaves the cache as it
\* was, and a request that finds no entry for the key takes the miss path.
C4_StoreFailureIsError == [][C4_FailStep /\ C4_MissAgainStep]_vars

\* a store failed, the key has no entry, and another request for the key
\* took the miss path
C4_Witness ==
    \E r, n \in Req :
        /\ r # n
        /\ pc[r] = "done" /\ stores[r] = 1 /\ result[r].status = 500
        /\ KeyOfReq(n) = KeyOfReq(r)
        /\ cache[KeyOfReq(r)] = NoEntry
        /\ window[KeyOfReq(r)] = 0
        /\ lookups[n] = 1 /\ fetches[n] = 1 /\ ~WasHit(n)

\* C5: a request whose path matches the pattern with a number that does not
\* fit in 32 bits is answered 400 and does not abort.
C5_OverflowIsBadRequest ==
    \A r \in Req :
        (pc[r] # "idle" /\ Overflows(path[r])) =>
            /\ pc[r] = "done"
            /\ result[r].status = 400

----------------------------------------------------------------------------
(* Properties of the pure functions, checked under SpecPure                *)

\* the input is exactly  apple-touch-icon [-WxH] [-precomposed] .png
InGrammar(in) == in.shape = "grammar" /\ in.pre = <<>> /\ in.suf = <<>>

RECURSIVE StripZeros(_)
StripZeros(ds) ==
    IF Len(ds) > 0 /\ Head(ds) = "0" THEN StripZeros(Tail(ds)) ELSE ds

\* the number a short digit string denotes
RECURSIVE DecVal(_)
DecVal(ds) ==
    IF Len(ds) = 0 THEN 0
    ELSE 10 * DecVal(SubSeq(ds, 1, Len(ds) - 1)) + DigitVal(ds[Len(ds)])

\* the digit string denotes a number in [1, 500]
DenotesValidSize(ds) ==
    /\ Len(StripZeros(ds)) \in 1..3
    /\ DecVal(StripZeros(ds)) >= 1
    /\ DecVal(StripZeros(ds)) <= 500

SameNumber(ds, es) == StripZeros(ds) = StripZeros(es)

PureAccepted == pPc \in {"validated", "rendered"} /\ pValid = "ok"

\* parsing and validation are over and the input was not accepted
PureRejected ==
    \/ pPc = "parsed" /\ pParsed.kind # "Ok"
    \/ pPc \in {"validated", "rendered"} /\ pValid # "ok"

PureSettled == PureAccepted \/ PureRejected

\* C6: parse_icon_path rejects a path as PathMismatch exactly when the whole
\* path is not of the form apple-touch-icon[-<digits>x<digits>][-precomposed].png
C6_RejectsAllButGrammar ==
    pPc # "start" =>
        /\ (pParsed.kind = "Err") <=> ~InGrammar(pIn)
        /\ pParsed.kind = "Err" => pParsed.path = pPath

InRange(n) == n >= 1 /\ n <= 500

\* C8: validate reports the first failing check only: width out of range,
\* else height out of range, else width different from height.
C8_FirstFailingCheck ==
    pPc \in {"validated", "rendered"} =>
        LET w == pParsed.icon.width
            h == pParsed.icon.height
        IN  /\ ~InRange(w) => pValid = "invalid width"
            /\ (InRange(w) /\ ~InRange(h)) => pValid = "invalid height"
            /\ (InRange(w) /\ InRange(h) /\ w # h) => pValid = "invalid size"
            /\ (InRange(w) /\ InRange(h) /\ w = h) => pValid = "ok"

\* width and height both out of range: only the width is reported
C8_Witness ==
    /\ pPc = "validated"
    /\ ~InRange(pParsed.icon.width)
    /\ ~InRange(pParsed.icon.height)
    /\ pValid = "invalid width"

\* the input with -precomposed added or removed
TogglePrecomposed(in) == [in EXCEPT !.precomposed = ~in.precomposed]

\* C9: a path without size segment parses to 60x60, and adding or removing
\* -precomposed never changes the parsed width and height.
C9_DefaultAndPrecomposed ==
    (pPc # "start" /\ InGrammar(pIn)) =>
        /\ ~pIn.sized =>
              /\ pParsed.kind = "Ok"
              /\ pParsed.icon = [width |-> 60, height |-> 60]
        /\ LET twin == parse_icon_path(Build(TogglePrecomposed(pIn)))
           IN  /\ twin.kind = pParsed.kind
               /\ twin.icon = pParsed.icon

\* apple-touch-icon-precomposed.png parsed to 60x60
C9_Witness ==
    /\ pPc = "parsed"
    /\ InGrammar(pIn) /\ ~pIn.sized /\ pIn.precomposed
    /\ pParsed.icon = [width |-> 60, height |-> 60]

\* C10: for a validated spec {W, W} generate_icon returns an image of
\* exactly W x W pixels whatever the dimensions of the source.
C10_ExactDimensions ==
    pPc = "rendered" => pImg = <<pParsed.icon.width, pParsed.icon.height>>

----------------------------------------------------------------------------
(* Further properties of the handler, checked under Spec                   *)

\* the reply has no content-type header, or one that is none of the three
\* supported values
UnsupportedType(reply) ==
    \/ ~reply.hasType
    \/ reply.contentType \notin {"image/jpeg", "image/png", "image/gif"}

FormatErrors ==
    {"Unknown source image format", "Could not get content-type response header"}

C11_Step ==
    \A r \in Req :
        (pc[r] = "bytes" /\ UnsupportedType(srcRes[r]) /\ pc'[r] # "bytes") =>
            /\ pc'[r] = "done"
            /\ result'[r].status = 500
            /\ result'[r].body.kind = "text"
            /\ \/ result'[r].body.msg = "bytes"
               \/ /\ srcRes[r].hasType
                  /\ result'[r].body.msg = "Unknown source image format"
               \/ /\ ~srcRes[r].hasType
                  /\ result'[r].body.msg = "Could not get content-type response header"
            /\ resizes'[r] = 0
            /\ stores'[r] = 0
            /\ cache' = cache

\* C11: a source reply whose content-type is missing or is not exactly
\* image/jpeg, image/png or image/gif ends the request with the
\* unknown-format error response (or with the error of reading the body,
\* which comes first): nothing is decoded, resized, encoded or stored.
C11_UnsupportedTypeFails == [][C11_Step]_vars

\* requests ended by a text/html reply and by a reply without content-type
C11_Witness ==
    \E r, n \in Req :
        /\ pc[r] = "done" /\ pc[n] = "done"
        /\ result[r].body.msg = "Unknown source image format"
        /\ result[n].body.msg = "Could not get content-type response header"
        /\ fetches[r] = 1 /\ resizes[r] = 0 /\ stores[r] = 0
        /\ fetches[n] = 1 /\ resizes[n] = 0 /\ stores[n] = 0

\* r passed parsing and validation
Accepted(r) == pc[r] \notin {"idle", "panicked"} /\ validate(icon[r]) = "ok"

\* C12 as stated: requests whose responses would be byte-identical (the same
\* resize spec) have the same cache key, and requests with distinct resize
\* specs have distinct keys.
C12_KeyMatchesSpec ==
    \A r1, r2 \in Req :
        (Accepted(r1) /\ Accepted(r2)) =>
            (icon[r1] = icon[r2]) <=> (KeyOfReq(r1) = KeyOfReq(r2))

\* C12 as amended: requests with distinct resize specs have distinct cache
\* keys and requests with the same URL have the same key, so a request served
\* from the cache gets a rendering made for its own spec; requests whose URLs
\* differ have distinct keys even when they denote the same spec.
C12_KeySeparatesSpecs ==
    /\ \A r1, r2 \in Req :
          (Accepted(r1) /\ Accepted(r2)) =>
              /\ icon[r1] # icon[r2] => KeyOfReq(r1) # KeyOfReq(r2)
              /\ path[r1] = path[r2] => KeyOfReq(r1) = KeyOfReq(r2)
              /\ path[r1] # path[r2] => KeyOfReq(r1) # KeyOfReq(r2)
    /\ \A r \in Req :
          WasHit(r) =>
              /\ result[r].body.kind = "png"
              /\ result[r].body.dim = generate_icon(icon[r], result[r].body.of)

\* a 60x60 and a 120x120 request both answered with an icon, under
\* different keys
C12_Witness ==
    \E r1, r2 \in Req :
        /\ icon[r1] # icon[r2]
        /\ pc[r1] = "done" /\ pc[r2] = "done"
        /\ result[r1].status = 200 /\ result[r2].status = 200
        /\ KeyOfReq(r1) # KeyOfReq(r2)

\* a lookup of r completes in this step after the entry of its key expired
LookupAfterExpiry(r) ==
    /\ pc[r] = "get"
    /\ pc'[r] # "get"
    /\ window[KeyOfReq(r)] > 0
    /\ cache[KeyOfReq(r)] = NoEntry

C13_MissStep ==
    \A r \in Req :
        LookupAfterExpiry(r) =>
            /\ hitFrom'[r] = 0
            /\ \/ /\ pc'[r] = "send"
                  /\ fetches'[r] = 1
                  /\ fetchedIn'[r] = window[KeyOfReq(r)]
               \/ /\ pc'[r] = "done"
                  /\ result'[r] \in {ErrResult("cache get"), ErrResult("no SOURCE_IMAGE_URL")}

C13_StoreStep ==
    \A r \in Req :
        (pc[r] = "put" /\ pc'[r] = "done" /\ result'[r].status = 200) =>
            /\ fetches[r] = 1 /\ resizes[r] = 1 /\ stores[r] = 1
            /\ cache'[KeyOfReq(r)] = [resp |-> response[r], by |-> r]
            /\ result'[r] = response[r]

\* C13: once the entry of a key has expired, the next request for the key
\* misses, fetches the source anew (unless the lookup or the configuration
\* read fails), and when it succeeds it has rendered and stored a fresh
\* entry under the key, as every request that succeeds on a miss has.
C13_RefetchAfterExpiry == [][C13_MissStep /\ C13_StoreStep]_vars

\* a request that fetched after an expiry and whose entry is in the cache
C13_Witness ==
    \E r \in Req :
        /\ fetchedIn[r] = 1
        /\ window[KeyOfReq(r)] = 1
        /\ pc[r] = "done"
        /\ result[r].status = 200
        /\ fetches[r] = 1 /\ resizes[r] = 1 /\ stores[r] = 1
        /\ cache[KeyOfReq(r)] = [resp |-> result[r], by |-> r]

IsErrorResponse(res) ==
    /\ res.status \in {400, 403, 500}
    /\ res.body.kind = "text"
    /\ res.contentType = ""

IsIconResponse(res) ==
    /\ res.status = 200
    /\ res.body.kind = "png"
    /\ res.contentType = "image/png"

C14_State ==
    \A r \in Req :
        /\ lookups[r] <= 1 /\ fetches[r] <= 1 /\ resizes[r] <= 1 /\ stores[r] <= 1
        /\ pc[r] = "done" => (IsErrorResponse(result[r]) \/ IsIconResponse(result[r]))
        /\ pc[r] # "done" => result[r] = NoResponse
        /\ (pc[r] = "done" /\ IsIconResponse(result[r]) /\ ~WasHit(r)) =>
              /\ lookups[r] = 1 /\ fetches[r] = 1 /\ resizes[r] = 1 /\ stores[r] = 1
              /\ result[r] = response[r]
        /\ (pc[r] = "done" /\ lookups[r] = 1 /\ ~WasHit(r) /\ stores[r] = 0) =>
              result[r].status = 500

\* a step that ends request r after its lookup started
C14_EndStep ==
    \A r \in Req :
        (pc[r] \in {"get", "send", "bytes", "put"} /\ pc'[r] = "done") =>
            \/ /\ pc[r] = "get"
               /\ cache[KeyOfReq(r)] # NoEntry
               /\ result'[r] = cache[KeyOfReq(r)].resp
            \/ /\ pc[r] = "put"
               /\ cache'[KeyOfReq(r)] = [resp |-> response[r], by |-> r]
               /\ result'[r] = response[r]
            \/ /\ result'[r].status = 500
               /\ IsErrorResponse(result'[r])
               /\ cache' = cache

\* C14: a request makes at most one cache lookup, one source fetch and one
\* cache store; a failure of the configuration read, the fetch, the decode,
\* the encode or a cache operation ends it with an error response, and a
\* request never ends with anything but a whole icon response or an error
\* response.
C14_NoRetryFirstFailureEnds == [](C14_State) /\ [][C14_EndStep]_vars

\* one request ended by a failed encode, another by a failed fetch
C14_Witness ==
    \E r, n \in Req :
        /\ pc[r] = "done" /\ result[r] = ErrResult("encode")
        /\ lookups[r] = 1 /\ fetches[r] = 1 /\ resizes[r] = 1 /\ stores[r] = 0
        /\ pc[n] = "done" /\ result[n] = ErrResult("fetch")
        /\ lookups[n] = 1 /\ fetches[n] = 1 /\ resizes[n] = 0 /\ stores[n] = 0

C15_State ==
    \A r \in Req :
        /\ lookups[r] = 1 =>
              /\ parse_icon_path(TrimStartSlashes(path[r])).kind = "Ok"
              /\ validate(icon[r]) = "ok"
        /\ fetches[r] = 1 => (lookups[r] = 1 /\ ~WasHit(r))
        /\ resizes[r] = 1 => fetches[r] = 1
        /\ stores[r] = 1 => (resizes[r] = 1 /\ IsIconResponse(response[r]))
        /\ pc[r] = "get" => (lookups[r] = 0 /\ fetches[r] = 0)
        /\ pc[r] = "send" => (lookups[r] = 1 /\ fetches[r] = 1 /\ resizes[r] = 0)
        /\ pc[r] = "bytes" => (fetches[r] = 1 /\ resizes[r] = 0 /\ stores[r] = 0)
        /\ pc[r] = "put" => (stores[r] = 1 /\ result[r] = NoResponse)
        /\ (IsIconResponse(result[r]) /\ ~WasHit(r)) => stores[r] = 1

C15_Step ==
    \A r \in Req :
        /\ lookups'[r] > lookups[r] => pc[r] = "get"
        /\ fetches'[r] > fetches[r] =>
              (lookups'[r] = 1 /\ cache[KeyOfReq(r)] = NoEntry)
        /\ resizes'[r] > resizes[r] => (pc[r] = "bytes" /\ fetches[r] = 1)
        /\ stores'[r] > stores[r] =>
              (resizes'[r] = 1 /\ IsIconResponse(response'[r]))
        /\ (result'[r] # result[r] /\ IsIconResponse(result'[r]) /\ ~WasHit(r)') =>
              /\ pc[r] = "put"
              /\ cache'[KeyOfReq(r)] = [resp |-> response[r], by |-> r]

\* C15: in one request the steps run in the order parse, validate, cache
\* lookup, then on a miss fetch, render, cache store, then respond: no fetch
\* before the lookup missed, no store before a successful render, and on a
\* miss the success response only once the store has completed.
C15_StepsInOrder == [](C15_State) /\ [][C15_Step]_vars

\* a request that went through every step of the miss path
C15_Witness ==
    \E r \in Req :
        /\ pc[r] = "done"
        /\ ~WasHit(r)
        /\ IsIconResponse(result[r])
        /\ lookups[r] = 1 /\ fetches[r] = 1 /\ resizes[r] = 1 /\ stores[r] = 1
        /\ cache[KeyOfReq(r)].by = r

C16_StoreStep ==
    \A r \in Req :
        (pc[r] = "put" /\ pc'[r] = "done" /\ IsIconResponse(result'[r])) =>
            cache' = [cache EXCEPT ![KeyOfReq(r)] = [resp |-> response[r], by |-> r]]

C16_State ==
    \A r1, r2 \in Req :
        (r1 # r2 /\ StoredOk(r1) /\ StoredOk(r2) /\ KeyOfReq(r1) = KeyOfReq(r2)) =>
            /\ icon[r1] = icon[r2]
            /\ IsIconResponse(result[r1]) /\ IsIconResponse(result[r2])
            /\ fetches[r1] = 1 /\ fetches[r2] = 1
            /\ resizes[r1] = 1 /\ resizes[r2] = 1
            /\ LET e == cache[KeyOfReq(r1)]
               IN  e # NoEntry => e = [resp |-> result[e.by], by |-> e.by]

\* C16: two concurrent requests for a key that is not cached can both miss,
\* both fetch and render and both store; every store replaces the entry of
\* the key, so the cache then holds the single entry the later store wrote,
\* and both callers get a success response for the same spec.
C16_ConcurrentMissesLastStoreWins == [](C16_State) /\ [][C16_StoreStep]_vars

\* both requests missed in the same window, fetched different source images
\* and stored; the entry is the one of the request that stored last
C16_Witness ==
    \E r1, r2 \in Req :
        /\ r1 # r2
        /\ KeyOfReq(r1) = KeyOfReq(r2)
        /\ StoredOk(r1) /\ StoredOk(r2)
        /\ ~WasHit(r1) /\ ~WasHit(r2)
        /\ fetchedIn[r1] = 0 /\ fetchedIn[r2] = 0
        /\ window[KeyOfReq(r1)] = 0
        /\ result[r1] # result[r2]
        /\ cache[KeyOfReq(r1)] = [resp |-> result[r2], by |-> r2]

\* some step of request r
RequestStep(r) ==
    \/ Receive(r) \/ CacheGetFail(r) \/ CacheHit(r) \/ CacheMiss(r)
    \/ FetchSend(r) \/ BodyFail(r) \/ FormatFail(r) \/ DecodeFail(r)
    \/ EncodeFail(r) \/ Render(r) \/ CachePutOk(r) \/ CachePutFail(r)

\* C17: every request ends with exactly one HTTP response on every path
\* through the handler: a request that has arrived either can still take a
\* step or has been answered with an icon response or an error response,
\* whatever the other requests did.
C17_EveryRequestAnswered ==
    \A r \in Req :
        (pc[r] # "idle" /\ ~ENABLED RequestStep(r)) =>
            (IsErrorResponse(result[r]) \/ IsIconResponse(result[r]))

\* the entry e under key k is an icon response rendered for the size in k by
\* a request for k that went through the whole miss path
GoodEntry(k, e) ==
    LET parsed == parse_icon_path(TrimStartSlashes(k))
        w      == e.by
    IN  /\ e.resp.status = 200
        /\ e.resp.contentType = "image/png"
        /\ e.resp.cacheControl = "s-maxage=10"
        /\ e.resp.body.kind = "png"
        /\ parsed.kind = "Ok"
        /\ validate(parsed.icon) = "ok"
        /\ e.resp.body.of # NoDim
        /\ e.resp.body.dim = generate_icon(parsed.icon, e.resp.body.of)
        /\ w \in Req
        /\ KeyOfReq(w) = k
        /\ icon[w] = parsed.icon
        /\ pc[w] = "done"
        /\ result[w] = e.resp
        /\ lookups[w] = 1 /\ fetches[w] = 1 /\ resizes[w] = 1 /\ stores[w] = 1

\* C18: every entry of the cache is a 200 response with content-type
\* image/png and cache-control s-maxage=10 whose body is the rendering for
\* the size in its key, written by a request that passed parsing and
\* validation and fetched, decoded, resized and encoded successfully; no
\* error response and no response for a rejected path or size is stored.
C18_OnlyIconsCached ==
    \A k \in Keys : cache[k] # NoEntry => GoodEntry(k, cache[k])

\* a key holds an entry while another request for it, which fetched the
\* source, ended in an error
C18_Witness ==
    \E k \in Keys : \E n \in Req :
        /\ cache[k] # NoEntry
        /\ cache[k].by # n
        /\ KeyOfReq(n) = k
        /\ pc[n] = "done"
        /\ result[n].status = 500
        /\ fetches[n] = 1

\* whether or not SOURCE_IMAGE_URL is configured, a request about to look up
\* a key the cache holds can be served from the cache
C19_State ==
    \A r \in Req :
        (pc[r] = "get" /\ cache[KeyOfReq(r)] # NoEntry) => ENABLED CacheHit(r)

\* request r is served from the cache in this step
C19_Step ==
    \A r \in Req :
        hitFrom'[r] # hitFrom[r] =>
            /\ pc[r] = "get" /\ pc'[r] = "done"
            /\ result'[r] = cache[KeyOfReq(r)].resp
            /\ IsIconResponse(result'[r])
            /\ fetches'[r] = 0 /\ resizes'[r] = 0 /\ stores'[r] = 0
            /\ srcRes'[r] = NoReply
            /\ cache' = cache
            /\ window' = window
            /\ envSet' = envSet

\* C19: a cache hit reads neither the configuration nor the source: the
\* stored response is returned unchanged and the request succeeds also when
\* SOURCE_IMAGE_URL is missing; a hit never writes to the cache.
C19_HitNeedsNoSource == [](C19_State) /\ [][C19_Step]_vars

\* a request was served from the cache and the configuration is missing
C19_Witness ==
    \E r \in Req :
        /\ WasHit(r)
        /\ ~envSet
        /\ pc[r] = "done"
        /\ IsIconResponse(result[r])
        /\ result[r] = cache[KeyOfReq(r)].resp
        /\ fetches[r] = 0

====
